---- MODULE Spec2Model ----
(***************************************************************************)
(* interactsh-server: the startup sequence of cmd/interactsh-server/main.go *)
(* and the components it wires together (correlation Store, protocol       *)
(* listeners, ACME coordinator, auth gate).                                 *)
(*                                                                         *)
(* main.go is modelled statement by statement.  The packages it imports    *)
(* from this repository (pkg/storage, pkg/server, pkg/server/acme) are     *)
(* modelled from their specification; MODEL_MAP.json marks those           *)
(* definitions.                                                             *)
(***************************************************************************)
EXTENDS Integers, Sequences, FiniteSets, TLC

\* ------------------------------------------------------------- bounds

\* the -eviction values tried: 1..MaxDays
MaxDays == 2
\* how often the clock advances (by TickHours each time)
MaxTicks == 2
\* how many interactions the listeners capture in one run
MaxPuts == 2
\* how many TXT queries the DNS listener answers in one run
MaxTxtQueries == 1
\* an -eviction value whose duration no longer fits time.Duration
WrapDays == 106752

\* ---------------------------------------------------------- constants

\* b := make([]byte, 32)
TokenBytes == 32
\* time.Hour, the unit of every duration and instant of the model
Hour == 1
\* the 24 of time.Duration(eviction) * time.Hour * 24
HoursPerDay == 24
\* the clock advances in steps of one day
TickHours == HoursPerDay * Hour

\* -domain
Domain == "example.com"
\* -token values tried: none, a secret, and the domain itself
SuppliedTokens == {"", "secret", Domain}

\* a nil *Storage, and the Store variable before storage.New
NoStore == "nil"
Unbuilt == [built |-> FALSE]
\* a goroutine or callback that is not in the middle of anything
Idle == [state |-> "idle"]
TheStore == "store"
NoToken == ""
NoTLS == "nil"
TheTLS == "autoTLS"

Listeners == {"dns", "http", "smtp", "responder", "smb"}

\* ------------------------------------------------------------- state

VARIABLES
    flags,      \* the parsed command line (never written after flag.Parse)
    opts,       \* *server.Options: Auth, Token, Template, RootTLD, Domain, Storage
    pc,         \* main's position
    exitReason, \* why the process ended ("" while it runs)
    enableAuth, \* main's local enableAuth
    generated,  \* how many tokens main has generated
    store,      \* the Store created by storage.New (NoStore before)
    lock,       \* the Store's mutex: "free" or the listener holding it
    created,    \* the listeners whose New...Server returned
    running,    \* the listeners whose ListenAndServe goroutine was started
    srvStorage, \* the Storage each listener was handed with its options
    srvTLS,     \* the TLS material each listener was started with
    closed,     \* the companions whose Close has been invoked
    bindFailed, \* the listeners whose goroutine could not bind its port
    autoTLS,    \* main's local autoTLS
    acme,       \* the ACME coordinator's state
    now,        \* the clock, in hours
    putting,    \* the put each listener is in the middle of
    nextUid,    \* the uniqueId of the next record
    hist,       \* per id, the records put since the bucket was last drained or evicted
    lastWrite,  \* per id, when it was last put to or registered (-1: never)
    txt,        \* dnsServer.TxtRecord, a string header: data pointer and length
    txtWrite,   \* the callback's pending write of txt
    txtRead,    \* the DNS handler's pending read of txt
    txtAnswer,  \* the TXT answers given so far
    txtSet      \* the values the callback has finished setting

vars == <<flags, opts, pc, exitReason, enableAuth, generated, store, lock, created,
          running, srvStorage, srvTLS, closed, bindFailed, autoTLS, acme, now, putting,
          nextUid,
          hist, lastWrite, txt, txtWrite, txtRead, txtAnswer, txtSet>>

\* ------------------------------------------------- pure functions

\* shouldEnableAuth with the root-TLD disjunct forgotten
shouldEnableAuthNoRootTLD(options, smbFlag, responderFlag) ==
    options.Template \/ responderFlag \/ smbFlag \/ options.Token # ""

\* func shouldEnableAuth(options *server.Options, smb, responder bool) bool
shouldEnableAuth(options, smbFlag, responderFlag) ==
    options.Template \/ responderFlag \/ smbFlag \/ options.RootTLD \/ options.Token # ""

HexDigits == <<"0", "1", "2", "3", "4", "5", "6", "7",
               "8", "9", "a", "b", "c", "d", "e", "f">>

RECURSIVE EncodeToString(_)
\* hex.EncodeToString: two lower-case hex digits per byte
EncodeToString(b) ==
    IF b = <<>> THEN ""
    ELSE HexDigits[(Head(b) \div 16) + 1] \o HexDigits[(Head(b) % 16) + 1]
         \o EncodeToString(Tail(b))

\* what rand.Read may leave in b := make([]byte, 32)
RandReads == { [i \in 1..TokenBytes |-> 0],
               [i \in 1..TokenBytes |-> (i * 37) % 256] }

\* time.Duration(eviction) * time.Hour * 24.  A time.Duration is an int64 count
\* of nanoseconds and the product wraps modulo 2^64; the model counts in hours:
\* the largest Duration is 2562047 whole hours, and 2^64 ns less than a
\* product of h hours is, rounded down to whole hours, h - 5124096 hours
\* (exact for 0 <= h < 7686143, one wrap).
EvictionDuration(eviction) ==
    LET h == eviction * Hour * HoursPerDay
    IN IF h > 2562047 THEN h - 5124096 ELSE h

\* ------------------------------------------------- the Store (pkg/storage)

EmptyBuckets == [i \in {} |-> i]

\* storage.New(evictionDuration)
New(evictionDuration) ==
    [evictionDuration |-> evictionDuration, authToken |-> NoToken, buckets |-> EmptyBuckets]

NewBucket(id, t) == [id |-> id, records |-> <<>>, lastWrittenAt |-> t]

\* a bucket whose lastWrittenAt is older than the eviction duration
Expired(s, id, t) == t > s.buckets[id].lastWrittenAt + s.evictionDuration

\* a registerId that always makes a fresh bucket
RegisterIdFresh(s, id, t) ==
    [s EXCEPT !.buckets = (id :> NewBucket(id, t)) @@ s.buckets]

\* registerId: pre-creates the bucket; idempotent
RegisterId(s, id, t) ==
    IF id \in DOMAIN s.buckets THEN s
    ELSE [s EXCEPT !.buckets = (id :> NewBucket(id, t)) @@ s.buckets]

\* Store.SetID(id), the registration main.go calls
SetID(s, id, t) == RegisterId(s, id, t)

\* registering the auth token: the bucket, and the Store's global token
SetToken(s, token, t) == [SetID(s, token, t) EXCEPT !.authToken = token]

\* put, first half: the records of the bucket as the writer finds them
Records(s, id) == IF id \in DOMAIN s.buckets THEN s.buckets[id].records ELSE <<>>

\* put, second half: append to the bucket, creating it if absent, and refresh
\* lastWrittenAt
Put(s, id, seen, record, t) ==
    LET b == IF id \in DOMAIN s.buckets THEN s.buckets[id] ELSE NewBucket(id, t)
        nb == [b EXCEPT !.records = Append(seen, record), !.lastWrittenAt = t]
    IN [s EXCEPT !.buckets = (id :> nb) @@ s.buckets]

\* verify(suppliedToken): fails closed
Verify(s, supplied) == supplied # NoToken /\ supplied = s.authToken

\* get: Unauthorized, empty (unknown or evicted id), or the bucket's records
Get(s, id, supplied, t) ==
    IF s.authToken # NoToken /\ ~Verify(s, supplied)
    THEN [status |-> "Unauthorized", records |-> <<>>]
    ELSE IF id \notin DOMAIN s.buckets \/ Expired(s, id, t)
    THEN [status |-> "empty", records |-> <<>>]
    ELSE [status |-> "ok", records |-> s.buckets[id].records]

\* get drains the records it returned
Drain(s, id) == [s EXCEPT !.buckets[id].records = <<>>]

\* evictExpired: removes every expired bucket
EvictExpired(s, t) ==
    [s EXCEPT !.buckets = [id \in {i \in DOMAIN s.buckets : ~Expired(s, i, t)} |-> s.buckets[id]]]

\* ------------------------------------------------- initial state

AllFlags ==
    [auth : BOOLEAN, token : SuppliedTokens, template : BOOLEAN, responder : BOOLEAN,
     smb : BOOLEAN, rootTLD : BOOLEAN, skipacme : BOOLEAN,
     eviction : (1..MaxDays) \cup {WrapDays}]

\* the ids under which listeners capture, and the ids clients poll
CaptureIds == {"abc", Domain}
PollIds == {"abc", Domain, "zzz"}
\* the ids clients register with the HTTP listener
RegisterIds == {"abc"}
AllIds == PollIds \cup SuppliedTokens \cup {EncodeToString(b) : b \in RandReads}

ZeroString == [data |-> "", len |-> 0]

InitWith(F) ==
    /\ flags \in F
    /\ opts = [Auth |-> flags.auth, Token |-> flags.token, Template |-> flags.template,
               RootTLD |-> flags.rootTLD, Domain |-> Domain, Storage |-> NoStore]
    /\ pc = "checkCompanions"
    /\ exitReason = ""
    /\ enableAuth = FALSE
    /\ generated = 0
    /\ store = Unbuilt
    /\ lock = "free"
    /\ created = {}
    /\ running = {}
    /\ srvStorage = [l \in Listeners |-> NoStore]
    /\ srvTLS = [l \in Listeners |-> NoTLS]
    /\ closed = {}
    /\ bindFailed = {}
    /\ autoTLS = NoTLS
    /\ acme = "Idle"
    /\ now = 0
    /\ putting = [l \in Listeners |-> Idle]
    /\ nextUid = 1
    /\ hist = [id \in AllIds |-> <<>>]
    /\ lastWrite = [id \in AllIds |-> -1]
    /\ txt = ZeroString
    /\ txtWrite = Idle
    /\ txtRead = Idle
    /\ txtAnswer = <<>>
    /\ txtSet = <<>>

Init == InitWith(AllFlags)

\* ------------------------------------------------- main's startup

authVars == <<opts, enableAuth, generated>>
srvVars == <<created, running, srvStorage, srvTLS, closed, bindFailed>>
storeVars == <<store, lock, putting, nextUid, hist, lastWrite>>
acmeVars == <<autoTLS, acme>>
txtVars == <<txt, txtWrite, txtRead, txtAnswer, txtSet>>

\* os.Exit(1), also the end of gologger.Fatal(): the process and its goroutines end
Exit(reason) == pc' = "exited" /\ exitReason' = reason

Goto(label) == pc' = label /\ UNCHANGED exitReason

\* the process has not ended
Alive == pc # "exited"

\* the check of the two companions forgotten
CheckCompanionsNever ==
    /\ pc = "checkCompanions"
    /\ Goto("enableAuth")
    /\ UNCHANGED <<flags, authVars, srvVars, storeVars, acmeVars, txtVars, now>>

\* if responder && smb { ...; os.Exit(1) }
CheckCompanions ==
    /\ pc = "checkCompanions"
    /\ IF flags.responder /\ flags.smb THEN Exit("companions") ELSE Goto("enableAuth")
    /\ UNCHANGED <<flags, authVars, srvVars, storeVars, acmeVars, txtVars, now>>

\* enableAuth := shouldEnableAuth(options, smb, responder)
ComputeEnableAuth ==
    /\ pc = "enableAuth"
    /\ enableAuth' = shouldEnableAuth(opts, flags.smb, flags.responder)
    /\ Goto("genToken")
    /\ UNCHANGED <<flags, opts, generated, srvVars, storeVars, acmeVars, txtVars, now>>

\* the token generation forgotten: an empty token stays empty
GenerateTokenNever ==
    /\ pc = "genToken"
    /\ Goto("newStore")
    /\ UNCHANGED <<flags, authVars, srvVars, storeVars, acmeVars, txtVars, now>>

\* if enableAuth && options.Token == "" { rand.Read(b); options.Token = hex(b) }
GenerateToken ==
    /\ pc = "genToken"
    /\ IF enableAuth /\ opts.Token = ""
       THEN \/ \E b \in RandReads :
                 /\ opts' = [opts EXCEPT !.Token = EncodeToString(b)]
                 /\ generated' = generated + 1
                 /\ Goto("newStore")
            \/ \* rand.Read returned an error: gologger.Fatal()
               /\ Exit("token")
               /\ UNCHANGED <<opts, generated>>
       ELSE Goto("newStore") /\ UNCHANGED <<opts, generated>>
    /\ UNCHANGED <<flags, enableAuth, srvVars, storeVars, acmeVars, txtVars, now>>

\* store := storage.New(...); options.Storage = store; server.Storage = store
NewStore ==
    /\ pc = "newStore"
    /\ store' = New(EvictionDuration(flags.eviction))
    /\ opts' = [opts EXCEPT !.Storage = TheStore]
    /\ Goto("setToken")
    /\ UNCHANGED <<flags, enableAuth, generated, srvVars, lock, putting, nextUid, hist,
                   lastWrite, acmeVars, txtVars, now>>

\* the bookkeeping of a registration: an id without a bucket gets one now
Registered(id) == [lastWrite EXCEPT ![id] = IF @ = -1 THEN now ELSE @]

\* the registration of the token as given on the command line, not as generated
RegisterTokenSupplied ==
    /\ pc = "setToken"
    /\ IF enableAuth
       THEN /\ store' = SetToken(store, flags.token, now)
            /\ lastWrite' = Registered(flags.token)
       ELSE UNCHANGED <<store, lastWrite>>
    /\ Goto("setDomain")
    /\ UNCHANGED <<flags, authVars, srvVars, lock, putting, nextUid, hist, acmeVars,
                   txtVars, now>>

\* if enableAuth { _ = options.Storage.SetID(options.Token) }
RegisterToken ==
    /\ pc = "setToken"
    /\ IF enableAuth
       THEN /\ store' = SetToken(store, opts.Token, now)
            /\ lastWrite' = Registered(opts.Token)
       ELSE UNCHANGED <<store, lastWrite>>
    /\ Goto("setDomain")
    /\ UNCHANGED <<flags, authVars, srvVars, lock, putting, nextUid, hist, acmeVars,
                   txtVars, now>>

\* the root-TLD registration forgotten
RegisterDomainNever ==
    /\ pc = "setDomain"
    /\ Goto("dns")
    /\ UNCHANGED <<flags, authVars, srvVars, storeVars, acmeVars, txtVars, now>>

\* if options.RootTLD { _ = store.SetID(options.Domain) }
RegisterDomain ==
    /\ pc = "setDomain"
    /\ IF opts.RootTLD
       THEN /\ store' = SetID(store, opts.Domain, now)
            /\ lastWrite' = Registered(opts.Domain)
       ELSE UNCHANGED <<store, lastWrite>>
    /\ Goto("dns")
    /\ UNCHANGED <<flags, authVars, srvVars, lock, putting, nextUid, hist, acmeVars,
                   txtVars, now>>

\* options.Storage set only after the DNS server was built from the options
HandedStorageLate(l) == IF l = "dns" THEN NoStore ELSE opts.Storage

\* the Storage a New...Server(options) call hands to its listener
HandedStorage(l) == opts.Storage

\* x, err := server.New...Server(options); go x.ListenAndServe(tls)
Start(l, tls) ==
    /\ created' = created \cup {l}
    /\ running' = running \cup {l}
    /\ srvStorage' = [srvStorage EXCEPT ![l] = HandedStorage(l)]
    /\ srvTLS' = [srvTLS EXCEPT ![l] = tls]
    /\ UNCHANGED <<closed, bindFailed>>

\* the DNS listener left for later: main goes on to the ACME call without it
StartDNSLater ==
    /\ pc = "dns"
    /\ Goto("acme")
    /\ UNCHANGED <<flags, authVars, srvVars, storeVars, acmeVars, txtVars, now>>

\* dnsServer, err := server.NewDNSServer(options); go dnsServer.ListenAndServe()
StartDNS ==
    /\ pc = "dns"
    /\ \/ Start("dns", NoTLS) /\ Goto("acme")
       \/ Exit("dns") /\ UNCHANGED srvVars
    /\ UNCHANGED <<flags, authVars, storeVars, acmeVars, txtVars, now>>

\* the ACME call made whatever -skip-acme says
AcmeRequestAlways ==
    /\ pc = "acme"
    /\ Goto("acmeCall") /\ acme' = "Requested"
    /\ UNCHANGED <<flags, authVars, srvVars, storeVars, autoTLS, txtVars, now>>

\* if !skipacme { autoTLS, err = acme.NewAutomaticTLS(...) }: skipped or entered
AcmeRequest ==
    /\ pc = "acme"
    /\ IF flags.skipacme
       THEN Goto("http") /\ UNCHANGED acme
       ELSE Goto("acmeCall") /\ acme' = "Requested"
    /\ UNCHANGED <<flags, authVars, srvVars, storeVars, autoTLS, txtVars, now>>

\* the HTTP listener started with certificate material whatever autoTLS holds
StartHTTPWithTLS ==
    /\ pc = "http"
    /\ \/ Start("http", TheTLS) /\ Goto("smtp")
       \/ Exit("http") /\ UNCHANGED srvVars
    /\ UNCHANGED <<flags, authVars, storeVars, acmeVars, txtVars, now>>

\* httpServer, err := server.NewHTTPServer(options); go httpServer.ListenAndServe(autoTLS)
StartHTTP ==
    /\ pc = "http"
    /\ \/ Start("http", autoTLS) /\ Goto("smtp")
       \/ Exit("http") /\ UNCHANGED srvVars
    /\ UNCHANGED <<flags, authVars, storeVars, acmeVars, txtVars, now>>

\* smtpServer, err := server.NewSMTPServer(options); go smtpServer.ListenAndServe(autoTLS)
StartSMTP ==
    /\ pc = "smtp"
    /\ \/ Start("smtp", autoTLS) /\ Goto("responder")
       \/ Exit("smtp") /\ UNCHANGED srvVars
    /\ UNCHANGED <<flags, authVars, storeVars, acmeVars, txtVars, now>>

\* if responder { ...NewResponderServer(options); go ...ListenAndServe(); defer ...Close() }
StartResponder ==
    /\ pc = "responder"
    /\ IF flags.responder
       THEN \/ Start("responder", NoTLS) /\ Goto("smb")
            \/ Exit("responder") /\ UNCHANGED srvVars
       ELSE Goto("smb") /\ UNCHANGED srvVars
    /\ UNCHANGED <<flags, authVars, storeVars, acmeVars, txtVars, now>>

\* if smb { ...NewSMBServer(options); go ...ListenAndServe(); defer ...Close() }
StartSMB ==
    /\ pc = "smb"
    /\ IF flags.smb
       THEN \/ Start("smb", NoTLS) /\ Goto("wait")
            \/ Exit("smb") /\ UNCHANGED srvVars
       ELSE Goto("wait") /\ UNCHANGED srvVars
    /\ UNCHANGED <<flags, authVars, storeVars, acmeVars, txtVars, now>>

\* for range c { os.Exit(1) }: an interrupt ends the process, deferred calls do not run
Signal ==
    /\ pc = "wait"
    /\ Exit("signal")
    /\ UNCHANGED <<flags, authVars, srvVars, storeVars, acmeVars, txtVars, now>>

\* the goroutine of go x.ListenAndServe() cannot bind its port: main, which did
\* not wait for it, is wherever it has got to; the goroutine aborts the process
BindFails(l) ==
    /\ Alive /\ l \in running /\ l \notin bindFailed
    /\ bindFailed' = bindFailed \cup {l}
    /\ Exit("bind")
    /\ UNCHANGED <<flags, authVars, created, running, srvStorage, srvTLS, closed,
                   storeVars, acmeVars, txtVars, now>>

\* ------------------------------------------------- ACME coordinator

\* the DNS-01 challenge value the certificate authority hands out
Challenge == "dns01-token"

\* a Go string value: its data pointer (the bytes it points to) and its length
StringHeader(str) == [data |-> str, len |-> Len(str)]

\* Requested -> ChallengePublished begins: the coordinator invokes the callback
\* func(txt string) { dnsServer.TxtRecord = txt }
AcmePublish ==
    /\ pc = "acmeCall" /\ acme = "Requested" /\ txtWrite = Idle
    /\ txtWrite' = [value |-> StringHeader(Challenge), todo |-> {"data", "len"}]
    /\ UNCHANGED <<flags, pc, exitReason, authVars, srvVars, storeVars, acmeVars, now,
                   txt, txtRead, txtAnswer, txtSet>>

\* dnsServer.TxtRecord = txt: a plain store of the two words of the string, in
\* the order the build chose, with no synchronisation
TxtStore(w) ==
    /\ pc = "acmeCall" /\ txtWrite # Idle /\ w \in txtWrite.todo
    /\ txt' = [txt EXCEPT ![w] = txtWrite.value[w]]
    /\ IF txtWrite.todo = {w}
       THEN /\ txtWrite' = Idle
            /\ txtSet' = Append(txtSet, txtWrite.value)
            /\ acme' = "ChallengePublished"
       ELSE /\ txtWrite' = [txtWrite EXCEPT !.todo = @ \ {w}]
            /\ UNCHANGED <<txtSet, acme>>
    /\ UNCHANGED <<flags, pc, exitReason, authVars, srvVars, storeVars, autoTLS, now,
                   txtRead, txtAnswer>>

\* ChallengePublished -> Validating
AcmeValidate ==
    /\ pc = "acmeCall" /\ acme = "ChallengePublished"
    /\ acme' = "Validating"
    /\ UNCHANGED <<flags, pc, exitReason, authVars, srvVars, storeVars, autoTLS, now, txtVars>>

\* Validating -> Issued: NewAutomaticTLS returns the certificate material
AcmeIssued ==
    /\ pc = "acmeCall" /\ acme = "Validating"
    /\ acme' = "Issued"
    /\ autoTLS' = TheTLS
    /\ Goto("http")
    /\ UNCHANGED <<flags, authVars, srvVars, storeVars, now, txtVars>>

\* the error of NewAutomaticTLS treated like the listeners' errors: gologger.Fatal()
AfterAcmeErrorFatal == Exit("acme")

\* what main does with an error of NewAutomaticTLS: two warnings, and on to HTTP
AfterAcmeError == Goto("http")

\* -> Failed: NewAutomaticTLS returns an error; if err != nil { gologger.Warning()... }
AcmeFailed ==
    /\ pc = "acmeCall" /\ acme \in {"Requested", "ChallengePublished", "Validating"}
    /\ txtWrite = Idle
    /\ acme' = "Failed"
    /\ autoTLS' = NoTLS
    /\ AfterAcmeError
    /\ UNCHANGED <<flags, authVars, srvVars, storeVars, now, txtVars>>

\* ------------------------------------------------- the DNS listener's TXT answers

Other(w) == IF w = "data" THEN "len" ELSE "data"

\* a TXT query arrives; the handler loads the first word of dnsServer.TxtRecord
TxtQueryBegin(w) ==
    /\ Alive /\ "dns" \in running /\ txtRead = Idle
    /\ Len(txtAnswer) < MaxTxtQueries
    /\ txtRead' = [ZeroString EXCEPT ![w] = txt[w]] @@ [first |-> w, after |-> Len(txtSet)]
    /\ UNCHANGED <<flags, pc, exitReason, authVars, srvVars, storeVars, acmeVars, now,
                   txt, txtWrite, txtAnswer, txtSet>>

\* the handler loads the other word and answers with the string it now holds
TxtQueryEnd ==
    /\ Alive /\ txtRead # Idle
    /\ LET w == Other(txtRead.first) IN
       txtAnswer' = Append(txtAnswer, [data |-> IF w = "data" THEN txt.data ELSE txtRead.data,
                                       len |-> IF w = "len" THEN txt.len ELSE txtRead.len,
                                       after |-> txtRead.after])
    /\ txtRead' = Idle
    /\ UNCHANGED <<flags, pc, exitReason, authVars, srvVars, storeVars, acmeVars, now,
                   txt, txtWrite, txtSet>>

\* ------------------------------------------------- the listeners and the Store

\* the correlation ids listener l extracts: a label of a subdomain, a path, a
\* recipient; the DNS listener takes the bare domain itself in root-TLD mode
ExtractedIds(l) ==
    IF l = "dns" /\ opts.RootTLD THEN {"abc", opts.Domain} ELSE {"abc"}

\* a Store without a mutex
CanLockAlways == TRUE

\* whether the Store's mutex can be taken
CanLock == lock = "free"

\* a listener decodes a request, builds the record, and enters Store.put
PutBegin(l, id) ==
    /\ Alive /\ l \in running /\ putting[l] = Idle
    /\ id \in ExtractedIds(l)
    /\ nextUid <= MaxPuts
    /\ LET record == [protocol |-> l, correlationId |-> id, uniqueId |-> nextUid]
       IN IF srvStorage[l] = TheStore
          THEN /\ CanLock
               /\ lock' = l
               /\ putting' = [putting EXCEPT ![l] = [record |-> record,
                                                     seen |-> Records(store, id)]]
          ELSE \* no Store behind the listener: the capture is lost
               /\ putting' = [putting EXCEPT ![l] = [record |-> record, seen |-> <<>>]]
               /\ UNCHANGED lock
    /\ nextUid' = nextUid + 1
    /\ UNCHANGED <<flags, pc, exitReason, authVars, srvVars, store, hist, lastWrite,
                   acmeVars, now, txtVars>>

\* Store.put completes: the record is in the bucket, the mutex is released
PutEnd(l) ==
    /\ Alive /\ putting[l] # Idle
    /\ LET record == putting[l].record
           id == record.correlationId
       IN /\ IF srvStorage[l] = TheStore
             THEN /\ store' = Put(store, id, putting[l].seen, record, now)
                  /\ lock' = "free"
             ELSE UNCHANGED <<store, lock>>
          /\ hist' = [hist EXCEPT ![id] = Append(@, record)]
          /\ lastWrite' = [lastWrite EXCEPT ![id] = now]
    /\ putting' = [putting EXCEPT ![l] = Idle]
    /\ UNCHANGED <<flags, pc, exitReason, authVars, srvVars, nextUid, acmeVars, now, txtVars>>

\* the tokens a polling client may present
ClientTokens == {"", "wrong", opts.Token}

\* a client polls the HTTP listener: Store.get, which drains what it returns
Poll(id, supplied) ==
    /\ Alive /\ "http" \in running /\ srvStorage["http"] = TheStore
    /\ CanLock
    /\ Get(store, id, supplied, now).status = "ok"
    /\ store' = Drain(store, id)
    /\ hist' = [hist EXCEPT ![id] = <<>>]
    /\ UNCHANGED <<flags, pc, exitReason, authVars, srvVars, lock, putting, nextUid,
                   lastWrite, acmeVars, now, txtVars>>

\* a client registers a correlation id with the HTTP listener: Store.registerId
Register(id) ==
    /\ Alive /\ "http" \in running /\ srvStorage["http"] = TheStore
    /\ CanLock
    /\ store' = RegisterId(store, id, now)
    /\ lastWrite' = Registered(id)
    /\ UNCHANGED <<flags, pc, exitReason, authVars, srvVars, lock, putting, nextUid,
                   hist, acmeVars, now, txtVars>>

\* the ids whose retention window has elapsed
Stale == {id \in AllIds : lastWrite[id] # -1
                          /\ now > lastWrite[id] + EvictionDuration(flags.eviction)}

\* the Store's periodic sweep: evictExpired
Sweep ==
    /\ Alive /\ store # Unbuilt
    /\ CanLock
    /\ store' = EvictExpired(store, now)
    /\ hist' = [id \in AllIds |-> IF id \in Stale THEN <<>> ELSE hist[id]]
    /\ lastWrite' = [id \in AllIds |-> IF id \in Stale THEN -1 ELSE lastWrite[id]]
    /\ UNCHANGED <<flags, pc, exitReason, authVars, srvVars, lock, putting, nextUid,
                   acmeVars, now, txtVars>>

\* time passes
Tick ==
    /\ Alive /\ store # Unbuilt
    /\ now < MaxTicks * TickHours
    /\ now' = now + TickHours
    /\ UNCHANGED <<flags, pc, exitReason, authVars, srvVars, storeVars, acmeVars, txtVars>>

\* ------------------------------------------------- the specifications

\* main, from flag.Parse to the interrupt, with the ACME call it makes
Startup ==
    \/ CheckCompanions
    \/ ComputeEnableAuth
    \/ GenerateToken
    \/ NewStore
    \/ RegisterToken
    \/ RegisterDomain
    \/ StartDNS
    \/ AcmeRequest
    \/ AcmePublish
    \/ \E w \in {"data", "len"} : TxtStore(w)
    \/ AcmeValidate
    \/ AcmeIssued
    \/ AcmeFailed
    \/ StartHTTP
    \/ StartSMTP
    \/ StartResponder
    \/ StartSMB
    \/ Signal

\* the TXT queries the DNS listener answers
TxtQueries ==
    \/ \E w \in {"data", "len"} : TxtQueryBegin(w)
    \/ TxtQueryEnd

\* the traffic of the listeners on the Store, its sweep and the clock
Capture ==
    \/ \E l \in Listeners, id \in CaptureIds : PutBegin(l, id)
    \/ \E l \in Listeners : PutEnd(l)
    \/ \E id \in PollIds, supplied \in ClientTokens : Poll(id, supplied)
    \/ \E id \in RegisterIds : Register(id)
    \/ Sweep
    \/ Tick

\* the binds that fail in the listeners' goroutines
Binding == \E l \in Listeners : BindFails(l)

\* every command line; the DNS listener answers TXT queries
Next == Startup \/ TxtQueries

Spec == Init /\ [][Next]_vars

\* the command lines without companions and template upload; the listeners
\* capture, clients register and poll, the Store sweeps, time passes
CaptureFlags ==
    {f \in AllFlags : ~f.auth /\ ~f.template /\ ~f.responder /\ ~f.smb /\ ~f.skipacme
                       /\ f.eviction <= MaxDays}

NextCapture == Startup \/ Capture

SpecCapture == InitWith(CaptureFlags) /\ [][NextCapture]_vars

\* every command line; any listener's bind may fail
NextBind == Startup \/ Binding

SpecBind == Init /\ [][NextBind]_vars

\* main's own statements, the assignment in the challenge callback among them:
\* the goroutine of main runs whenever it is not waiting, inside
\* acme.NewAutomaticTLS, for the certificate authority
MainSteps ==
    \/ CheckCompanions
    \/ ComputeEnableAuth
    \/ GenerateToken
    \/ NewStore
    \/ RegisterToken
    \/ RegisterDomain
    \/ StartDNS
    \/ AcmeRequest
    \/ \E w \in {"data", "len"} : TxtStore(w)
    \/ StartHTTP
    \/ StartSMTP
    \/ StartResponder
    \/ StartSMB

\* main is scheduled fairly; the certificate authority may answer late or never
SpecStall == Init /\ [][Next]_vars /\ WF_vars(MainSteps)

\* ------------------------------------------------- claims

\* main has computed enableAuth (it has not when both companions were requested)
AuthDecided == pc \notin {"checkCompanions", "enableAuth"} /\ exitReason # "companions"

\* the options as flag.Parse leaves them for the command line f
ParsedOptions(f) ==
    [Auth |-> f.auth, Token |-> f.token, Template |-> f.template, RootTLD |-> f.rootTLD,
     Domain |-> Domain, Storage |-> NoStore]

\* what the claim calls mandatory, on the command line f
Mandatory(f) == f.template \/ f.responder \/ f.smb \/ f.rootTLD \/ f.token # ""

\* C1: shouldEnableAuth returns true exactly when template upload, the responder
\* companion, the SMB companion, root-TLD mode or a non-empty token is given: for
\* every command line as a function, and as the enableAuth main computed in
\* every run.
C1_MandatoryIffAnyFlag ==
    /\ \A f \in AllFlags :
          shouldEnableAuth(ParsedOptions(f), f.smb, f.responder) <=> Mandatory(f)
    /\ AuthDecided => (enableAuth <=> Mandatory(flags))

\* C1's case: root-TLD mode alone makes authentication mandatory
C1_Witness ==
    /\ AuthDecided /\ enableAuth
    /\ flags.rootTLD /\ ~flags.template /\ ~flags.responder /\ ~flags.smb
    /\ flags.token = ""

\* once a listener runs with authentication mandatory: the token is non-empty
\* and registered in the Store; it was generated once if none was supplied, and
\* is the supplied one, with none generated, otherwise
C2_AtListenerStart ==
    (running # {} /\ enableAuth) =>
        /\ opts.Token # ""
        /\ store.authToken = opts.Token
        /\ flags.token = "" => generated = 1 /\ Len(opts.Token) = 2 * TokenBytes
        /\ flags.token # "" => generated = 0 /\ opts.Token = flags.token

\* once the token is registered, no step changes it or generates another
C2_TokenFixed ==
    (store # Unbuilt /\ store.authToken # NoToken) =>
        /\ opts'.Token = opts.Token
        /\ store'.authToken = store.authToken
        /\ generated' = generated

\* C2: when authentication is mandatory and no token was supplied, one non-empty
\* token is generated and registered in the Store before any listener starts, and
\* it never changes afterwards; a supplied token is registered as it is and none
\* is generated.
C2_TokenGeneratedOnceAndRegistered == [](C2_AtListenerStart) /\ [][C2_TokenFixed]_vars

\* C2's case: a generated token is registered and a listener runs
C2_Witness ==
    /\ running # {} /\ enableAuth /\ flags.token = "" /\ generated = 1
    /\ store.authToken = opts.Token /\ opts.Token \in DOMAIN store.buckets

\* C4: with -auth given, the token in the options is non-empty when the
\* listeners are started, whatever the other options are.
C4_AuthFlagGivesToken == (flags.auth /\ running # {}) => opts.Token # ""

\* C3: with authentication mandatory, a get without a token is Unauthorized, for
\* ids that exist in the Store and ids that do not, in every state after startup
\* in which the HTTP listener serves gets, whatever the listeners have written.
C3_NoTokenUnauthorized ==
    ("http" \in running /\ enableAuth) =>
        \A id \in PollIds \cup {opts.Token} : Get(store, id, "", now).status = "Unauthorized"

\* C3's case: one polled id holds a record, another does not exist
C3_Witness ==
    /\ "http" \in running /\ enableAuth
    /\ "abc" \in DOMAIN store.buckets /\ store.buckets["abc"].records # <<>>
    /\ "zzz" \notin DOMAIN store.buckets
    /\ Get(store, "abc", "", now).status = "Unauthorized"
    /\ Get(store, "zzz", "", now).status = "Unauthorized"

\* C5: what was put under X and neither drained nor evicted is what get(X,
\* validToken) returns, and no get(Y) returns a record put under another id, after
\* any puts, gets, registrations and sweeps of the listeners sharing the Store.
C5_PutThenGet ==
    store # Unbuilt =>
        \A X \in PollIds, tok \in ClientTokens :
            LET g == Get(store, X, tok, now) IN
            /\ \A i \in 1..Len(g.records) : g.records[i].correlationId = X
            /\ ( /\ ~enableAuth \/ tok = opts.Token
                 /\ lastWrite[X] # -1
                 /\ now <= lastWrite[X] + store.evictionDuration )
               => g.status = "ok" /\ g.records = hist[X]

\* C5's case: two ids hold records, and the valid token reads each id's own
C5_Witness ==
    /\ enableAuth /\ "http" \in running
    /\ hist["abc"] # <<>> /\ hist[Domain] # <<>>
    /\ Get(store, "abc", opts.Token, now).records = hist["abc"]
    /\ Get(store, Domain, opts.Token, now).records = hist[Domain]

\* C6: the puts completed for an id since its bucket was last drained or evicted
\* are exactly the records of the bucket, each once, under every interleaving;
\* and while the Store is unlocked, where a get can run, no put is half done.
C6_ConcurrentPuts ==
    store # Unbuilt =>
        /\ \A id \in DOMAIN store.buckets :
              LET rs == store.buckets[id].records IN
              /\ Len(rs) = Len(hist[id])
              /\ \A i, j \in 1..Len(rs) : i # j => rs[i].uniqueId # rs[j].uniqueId
        /\ \A id \in AllIds \ DOMAIN store.buckets : hist[id] = <<>>
        /\ lock = "free" => \A l \in Listeners : putting[l] = Idle

\* C6's case: two listeners have put under the same id
C6_Witness ==
    store # Unbuilt /\ \E id \in DOMAIN store.buckets :
        LET rs == store.buckets[id].records IN
        Len(rs) = 2 /\ rs[1].protocol # rs[2].protocol

\* C7: the eviction duration is the configured days times 24 hours from the
\* construction of the Store on; a bucket last written at t is returned by get
\* up to t + evictionDuration and absent later, swept or not.
C7_EvictionDaysTimes24 ==
    store # Unbuilt =>
        /\ store.evictionDuration = flags.eviction * 24
        /\ \A id \in AllIds :
              lastWrite[id] # -1 =>
                  IF now <= lastWrite[id] + flags.eviction * 24
                  THEN Get(store, id, opts.Token, now).status = "ok"
                  ELSE Get(store, id, opts.Token, now).status = "empty"

\* the retention window of C7 for the duration the Store was built with: present
\* up to lastWrittenAt + evictionDuration, absent later and once swept
EvictionWindow ==
    store # Unbuilt =>
        /\ store.evictionDuration = EvictionDuration(flags.eviction)
        /\ \A id \in AllIds :
              LET g == Get(store, id, opts.Token, now) IN
              IF lastWrite[id] # -1 /\ now <= lastWrite[id] + store.evictionDuration
              THEN g.status = "ok"
              ELSE g.status = "empty"

\* the steps C8 speaks of: the root-TLD registration, the start of the DNS
\* listener, and the DNS listener's puts
C8_Step ==
    /\ (pc = "setDomain" /\ pc' = "dns") =>
          /\ flags.rootTLD => opts.Domain \in DOMAIN store'.buckets
          /\ (~flags.rootTLD /\ opts.Domain \in DOMAIN store'.buckets)
                => opts.Token = opts.Domain
          /\ "dns" \notin running'
    /\ ("dns" \notin running /\ "dns" \in running') => pc = "dns"
    /\ (putting["dns"] = Idle /\ putting'["dns"] # Idle
        /\ putting'["dns"].record.correlationId = opts.Domain) => flags.rootTLD
    /\ (putting["dns"] # Idle /\ putting'["dns"] = Idle) =>
          LET r == putting["dns"].record
              id == r.correlationId
          IN /\ id \in DOMAIN store'.buckets
             /\ \E i \in 1..Len(store'.buckets[id].records) :
                   store'.buckets[id].records[i] = r

\* C8 as amended: in root-TLD mode the bucket of the bare domain is registered
\* before the DNS listener starts, and the listener's captures of queries for the
\* bare domain are stored under it; without root-TLD mode the bucket exists at
\* startup only when the auth token is the domain string itself.
C8_DomainRegisteredBeforeDNS == [][C8_Step]_vars

\* C8's case: a query for the bare domain is stored under the domain
C8_Witness ==
    /\ flags.rootTLD /\ "dns" \in running
    /\ opts.Domain \in DOMAIN store.buckets
    /\ \E i \in 1..Len(store.buckets[opts.Domain].records) :
          store.buckets[opts.Domain].records[i].protocol = "dns"

\* C8 as stated: when the DNS listener is about to start, the bucket of the
\* domain is registered if and only if root-TLD mode is enabled.
C8_DomainBucketIffRootTLD ==
    (pc = "dns" /\ now = 0) => (flags.rootTLD <=> opts.Domain \in DOMAIN store.buckets)

\* C9: a failed certificate provisioning ends nothing: the process goes on, the
\* DNS listener runs, HTTP and SMTP are started without certificate material, and
\* every running listener captures.
C9_AcmeFailureNotFatal ==
    acme = "Failed" =>
        /\ exitReason # "acme"
        /\ autoTLS = NoTLS
        /\ "dns" \in running
        /\ \A l \in {"http", "smtp"} : l \in running => srvTLS[l] = NoTLS
        /\ pc \in {"responder", "smb", "wait"} => {"http", "smtp"} \subseteq running
        /\ \A l \in running :
              (Alive /\ nextUid <= MaxPuts /\ putting[l] = Idle /\ lock = "free")
                 => ENABLED PutBegin(l, "abc")

\* C9's case: provisioning failed, HTTP and SMTP run, HTTP has captured
C9_Witness ==
    /\ acme = "Failed" /\ Alive /\ {"dns", "http", "smtp"} \subseteq running
    /\ srvTLS["http"] = NoTLS
    /\ "abc" \in DOMAIN store.buckets
    /\ \E i \in 1..Len(store.buckets["abc"].records) :
          store.buckets["abc"].records[i].protocol = "http"

\* a string header that denotes a string: no bytes, or all the bytes it points to
Whole(h) == h.len = 0 \/ h.len = Len(h.data)

\* the string a whole header denotes
StringOf(h) == IF h.len = 0 THEN "" ELSE h.data

\* C10: every TXT answer is a whole value, the old or the new one, and a query
\* that arrives after the callback has set a value is answered with that value.
C10_TxtAnswerWhole ==
    \A i \in 1..Len(txtAnswer) :
        LET h == [data |-> txtAnswer[i].data, len |-> txtAnswer[i].len] IN
        /\ Whole(h)
        /\ StringOf(h) \in {"", Challenge}
        /\ txtAnswer[i].after > 0 => StringOf(h) = StringOf(txtSet[txtAnswer[i].after])

\* the listeners main has created once it has created l
StartedUpTo(l) ==
    CASE l = "dns" -> {"dns"}
      [] l = "http" -> {"dns", "http"}
      [] l = "smtp" -> {"dns", "http", "smtp"}
      [] OTHER -> Listeners

\* C11: a listener that cannot be created or bound, or a token that cannot be
\* generated, ends the process at once: nothing that main does after the
\* failing step has been done, so no later listener has been created.
C11_FailureAbortsAtOnce ==
    /\ exitReason = "token" => store = Unbuilt /\ created = {}
    /\ \A l \in Listeners : exitReason = l => created \subseteq StartedUpTo(l) \ {l}
    /\ \A l \in bindFailed : pc = "exited" /\ created \subseteq StartedUpTo(l)

\* C12: however long the certificate authority takes, once the ACME call is
\* entered the HTTP listener is eventually started (or the process has ended).
C12_AcmeNeverStalls == (acme = "Requested") ~> ("http" \in running \/ pc = "exited")

\* C13: the Store exists before any listener; the DNS listener is created and
\* started before the ACME coordinator, the coordinator is done (or skipped)
\* before HTTP, HTTP is started before SMTP and SMTP before a companion; every
\* listener was handed the one Store; the challenge callback has not touched
\* the TXT value unless the DNS listener exists.
C13_StartupOrder ==
    /\ created # {} => store # Unbuilt /\ "dns" \in created
    /\ created = running
    /\ acme # "Idle" => "dns" \in running /\ ~flags.skipacme
    /\ "http" \in created => flags.skipacme \/ acme \in {"Issued", "Failed"}
    /\ "smtp" \in created => "http" \in running
    /\ created \cap {"responder", "smb"} # {} => "smtp" \in running
    /\ \A l \in created : srvStorage[l] = TheStore /\ opts.Storage = TheStore
    /\ (txtWrite # Idle \/ txtSet # <<>> \/ txt # ZeroString) => "dns" \in created

\* C13's case: a whole startup with the coordinator and a companion
C13_Witness ==
    /\ pc = "wait" /\ acme = "Issued" /\ txtSet # <<>>
    /\ running = {"dns", "http", "smtp", "responder"}
    /\ \A l \in running : srvStorage[l] = TheStore

\* in every state of an issuance attempt: validation is under way or done only
\* with the challenge published; certificate material exists, and is with a
\* listener, only after Issued
C14_State ==
    /\ acme \in {"Validating", "Issued"} => txtSet # <<>> /\ txt = StringHeader(Challenge)
    /\ autoTLS = TheTLS <=> acme = "Issued"
    /\ \A l \in Listeners :
          srvTLS[l] = TheTLS => acme = "Issued" /\ l \in {"http", "smtp"}

\* in every step: validation is triggered with the challenge published, and an
\* attempt that ended in Issued or in Failed stays there
C14_Step ==
    /\ (acme # "Validating" /\ acme' = "Validating")
          => txtSet # <<>> /\ txt = StringHeader(Challenge)
    /\ acme \in {"Issued", "Failed"} => acme' = acme

\* C14: the challenge value is published to the DNS listener before validation
\* is triggered; an attempt ends in Issued or in Failed, never both; HTTP and SMTP
\* have certificate material only after Issued, never after Failed.
C14_PublishThenValidate == [](C14_State) /\ [][C14_Step]_vars

\* C14's case: an attempt ended in Issued and both listeners hold the certificate
C14_Witness ==
    /\ acme = "Issued" /\ txtSet # <<>>
    /\ srvTLS["http"] = TheTLS /\ srvTLS["smtp"] = TheTLS

\* C15: registering an id again changes nothing: the Store has the one bucket
\* it had for the id, with its records and its age, and the other buckets are
\* untouched; after a startup that registered the token and then the domain,
\* the same string, the Store holds that one bucket and the token.
C15_RegisterIdIdempotent ==
    store # Unbuilt =>
        /\ \A id \in AllIds :
              LET once == RegisterId(store, id, now) IN
              /\ RegisterId(once, id, now + TickHours) = once
              /\ id \in DOMAIN store.buckets => once = store
              /\ DOMAIN once.buckets = DOMAIN store.buckets \cup {id}
              /\ \A other \in DOMAIN store.buckets \ {id} :
                    once.buckets[other] = store.buckets[other]
        /\ \A id \in DOMAIN store.buckets :
              store.buckets[id].lastWrittenAt = lastWrite[id]
        /\ (pc = "dns" /\ now = 0 /\ enableAuth /\ opts.RootTLD /\ opts.Token = opts.Domain)
              => /\ store.authToken = opts.Domain
                 /\ store.buckets = (opts.Domain :> NewBucket(opts.Domain, 0))

\* C15's case: the token and the domain are the same string, both were
\* registered, startup went on, and the one bucket has captured since
C15_Witness ==
    /\ flags.token = Domain /\ flags.rootTLD /\ {"dns", "http"} \subseteq running
    /\ store.authToken = Domain /\ DOMAIN store.buckets = {Domain}
    /\ store.buckets[Domain].records # <<>>

\* C16: when the process has ended on the interrupt, the companion that was
\* started has been closed and no listener was in the middle of a capture.
C16_ClosedBeforeExit ==
    exitReason = "signal" =>
        /\ running \cap {"responder", "smb"} \subseteq closed
        /\ \A l \in Listeners : putting[l] = Idle

\* C17: once main has decided that authentication is mandatory, the options
\* every listener is created with have the auth toggle set and carry the
\* non-empty token registered in the Store.
C17_OptionsAgreeWithDecision ==
    (enableAuth /\ created # {}) =>
        /\ opts.Auth
        /\ opts.Token # "" /\ store.authToken = opts.Token

\* C18: with both companions requested the process ends before the Store and
\* before any listener; in every state at most one companion has been started,
\* and only one that was requested.
C18_OneCompanion ==
    /\ (flags.responder /\ flags.smb) =>
          /\ pc \in {"checkCompanions", "exited"}
          /\ pc = "exited" => exitReason = "companions"
          /\ store = Unbuilt /\ opts.Storage = NoStore
          /\ created = {} /\ running = {}
    /\ ~({"responder", "smb"} \subseteq created)
    /\ "responder" \in created => flags.responder
    /\ "smb" \in created => flags.smb

\* C18's case: both companions were requested and the process has ended
C18_Witness ==
    /\ flags.responder /\ flags.smb
    /\ pc = "exited" /\ exitReason = "companions" /\ store = Unbuilt /\ running = {}

\* the Store as the startup leaves it for the DNS listener: built from
\* -eviction, with the token registered if authentication is mandatory and
\* the domain if root-TLD mode is on
StoreAfterStartup ==
    LET built == New(EvictionDuration(flags.eviction))
        withToken == IF enableAuth THEN SetToken(built, opts.Token, 0) ELSE built
    IN IF opts.RootTLD THEN SetID(withToken, opts.Domain, 0) ELSE withToken

\* C19: with -skip-acme the coordinator is never started, the TXT value is never
\* written, there is no certificate material, and HTTP and SMTP are started all
\* the same; the decision, the token, the Store and its registrations are what
\* the other options alone make them, with or without -skip-acme.
C19_SkipAcme ==
    /\ flags.skipacme =>
          /\ acme = "Idle" /\ pc # "acmeCall"
          /\ txt = ZeroString /\ txtWrite = Idle /\ txtSet = <<>>
          /\ autoTLS = NoTLS /\ \A l \in Listeners : srvTLS[l] = NoTLS
          /\ pc \in {"responder", "smb", "wait"} => {"dns", "http", "smtp"} \subseteq running
          /\ \A i \in 1..Len(txtAnswer) : txtAnswer[i].data = "" /\ txtAnswer[i].len = 0
    /\ AuthDecided => enableAuth = shouldEnableAuth(ParsedOptions(flags), flags.smb, flags.responder)
    /\ "dns" \in created =>
          /\ store = StoreAfterStartup
          /\ opts = [ParsedOptions(flags) EXCEPT !.Token = opts.Token, !.Storage = TheStore]
          /\ \A l \in created : srvStorage[l] = TheStore

\* C19's case: a whole startup with -skip-acme, a TXT query answered
C19_Witness ==
    /\ flags.skipacme /\ pc = "wait" /\ {"dns", "http", "smtp"} \subseteq running
    /\ enableAuth /\ flags.rootTLD /\ txtAnswer # <<>>

====
